---- MODULE Spec2Model ----
(***************************************************************************)
(* Action dispatch core of spot: the action channel, the dispatch loop     *)
(* (App::start / App::handle / App::update_state), the worker bridge       *)
(* call_spotify_and_dispatch_many and the component fan-out.               *)
(***************************************************************************)
EXTENDS Integers, Sequences, FiniteSets, TLC

\* ---------------------------------------------------------------- bounds
MaxWork == 3          \* operations scheduled plus actions put on the channel
MaxOps == 2           \* worker operations ever scheduled
MaxUri == 1           \* distinct track uris
MaxToken == 1         \* distinct session tokens
MaxTracks == 1        \* longest track list of a LoadPlaylist
MaxOpLen == 2         \* longest action list an operation returns
MaxPlaylists == 1     \* distinct playlists the remote service creates

\* ------------------------------------------------------ program constants
NumComponents == 5    \* Playback, Playlist, Login, Browser, Player
NoneValue == 0        \* Option::None of current_song_uri and api.token

\* the source of an entry sent by Dispatcher::dispatch; an entry sent for an
\* operation carries the operation's number
SrcDispatch == 0

\* ------------------------------------------------------------- AppAction
NoCreds == [username |-> NoneValue, token |-> NoneValue]

Act(k) ==
    [kind |-> k, uri |-> NoneValue, tracks |-> <<>>, creds |-> NoCreds, id |-> "",
     playlists |-> <<>>]

Play == Act("Play")
Pause == Act("Pause")
Load(u) == [Act("Load") EXCEPT !.uri = u]
LoadPlaylist(t) == [Act("LoadPlaylist") EXCEPT !.tracks = t]
StartLogin == Act("StartLogin")
TryLogin == Act("TryLogin")
LoginSuccess(c) == [Act("LoginSuccess") EXCEPT !.creds = c]
Error == Act("Error")

Credentials == [username : {1}, token : 1..MaxToken]

TrackLists == UNION {[1..n -> {1}] : n \in 1..MaxTracks}

AppAction ==
    {Play, Pause, StartLogin, TryLogin, Error}
        \cup {Load(u) : u \in 1..MaxUri}
        \cup {LoadPlaylist(t) : t \in TrackLists}
        \cup {LoginSuccess(c) : c \in Credentials}

\* actions of the sidebar
SetHomeVisiblePage(page) == [Act("SetHomeVisiblePage") EXCEPT !.id = page]
ViewPlaylist(i) == [Act("ViewPlaylist") EXCEPT !.id = i]
PrependPlaylistsContent(ps) == [Act("PrependPlaylistsContent") EXCEPT !.playlists = ps]
ShowPlaylistCreatedNotification(i) ==
    [Act("ShowPlaylistCreatedNotification") EXCEPT !.id = i]

\* ----------------------------------------------------- sidebar vocabulary
PlaylistId(n) == "playlist:" \o ToString(n)

PlaylistNames == {"Mix"}

PlaylistSummary ==
    [id : {PlaylistId(n) : n \in 1..MaxPlaylists}, title : PlaylistNames]

NoSummary == [id |-> "", title |-> ""]

FixedDestination(k) == [kind |-> k, summary |-> NoSummary]

PlaylistDestination(ps) == [kind |-> "Playlist", summary |-> ps]

SidebarDestination ==
    {FixedDestination(k) :
        k \in {"Library", "SavedTracks", "NowPlaying", "SavedPlaylists"}}
        \cup {PlaylistDestination(ps) : ps \in PlaylistSummary}

\* SidebarDestination::id
dest_id(dest) ==
    CASE dest.kind = "Library" -> "library"
      [] dest.kind = "SavedTracks" -> "saved_tracks"
      [] dest.kind = "NowPlaying" -> "now_playing"
      [] dest.kind = "SavedPlaylists" -> "saved_playlists"
      [] OTHER -> dest.summary.id

\* the sidebar sends the action of the other kind of destination
navigate_action_crossed(dest) ==
    IF dest.kind \in {"Library", "SavedTracks", "NowPlaying", "SavedPlaylists"}
    THEN ViewPlaylist(dest_id(dest))
    ELSE SetHomeVisiblePage(dest.summary.id)

\* SidebarModel::navigate, lines 70-78: the action of a destination
navigate_action(dest) ==
    IF dest.kind \in {"Library", "SavedTracks", "NowPlaying", "SavedPlaylists"}
    THEN SetHomeVisiblePage(dest_id(dest))
    ELSE ViewPlaylist(dest.summary.id)

\* ------------------------------------------------------------------ Sidebar
NUM_FIXED_ENTRIES == 6
NUM_PLAYLISTS == 20

\* SidebarItem: an entry of the list store
NoDestination == [kind |-> "", summary |-> NoSummary]

SidebarItem_for_destination(dest) == [item |-> "destination", dest |-> dest]

SidebarItem_playlists_section ==
    [item |-> "playlists_section", dest |-> NoDestination]

SidebarItem_create_playlist_item ==
    [item |-> "create_playlist_item", dest |-> NoDestination]

\* Sidebar::new, lines 94-107: the list store after the six appends
Sidebar_new ==
    << SidebarItem_for_destination(FixedDestination("Library")),
       SidebarItem_for_destination(FixedDestination("SavedTracks")),
       SidebarItem_for_destination(FixedDestination("NowPlaying")),
       SidebarItem_playlists_section,
       SidebarItem_create_playlist_item,
       SidebarItem_for_destination(FixedDestination("SavedPlaylists")) >>

\* AlbumModel of a saved playlist of the home state
AlbumModel(uri, title) == [uri |-> uri, title |-> title]

\* the i-th saved playlist the remote service lists; every other one unnamed
SavedAlbum(i) ==
    AlbumModel(PlaylistId(i), IF i % 2 = 0 THEN "" ELSE "Mix")

\* AppEvent
SavedPlaylistsUpdated == "BrowserEvent::SavedPlaylistsUpdated"

AppEvent == {SavedPlaylistsUpdated, "BrowserEvent::LibraryUpdated",
             "PlaybackEvent::TrackChanged"}

NoEvent == "none"

\* ------------------------------------------------------------------ state
VARIABLES
    channel,      \* the action channel: entries [act, src, n] in arrival order
    pc,           \* position of the dispatch loop
    message,      \* the entry App::handle is working on
    idx,          \* next component of the fan-out loop
    model,        \* AppModel: [state |-> AppState, api |-> [token]]
    borrowed,     \* the RefCell<AppModel> is mutably borrowed
    save_calls,   \* arguments of the save_credentials calls so far
    stored,       \* what the credential store holds
    received,     \* per component: the entries handed to its handle
    seen,         \* per component: the model it read in its last handle
    ops,          \* worker operations
    enqueued,     \* history: every entry ever put on the channel
    processed,    \* history: entries whose update_state has run
    pre,          \* history: the model before the current update_state
    work,         \* operations scheduled plus actions they and dispatch may send
    open,         \* the channel has not been closed
    list_store,   \* Sidebar: the items of the gio::ListStore
    home,         \* the saved playlists of the browser's home state
    prepended,    \* playlists prepended to the home state so far
    last_event,   \* history: the event Sidebar::on_event handled last
    activated     \* history: the destination navigate was called with last

vars == <<channel, pc, message, idx, model, borrowed, save_calls, stored,
          received, seen, ops, enqueued, processed, pre, work,
          open, list_store, home, prepended, last_event, activated>>

\* what the dispatch core leaves alone, but for the closing of the channel
aside == <<open, list_store, home, prepended, last_event>>

\* the state of the dispatch core
core == <<channel, pc, message, idx, model, borrowed, save_calls, stored,
          received, seen, ops, enqueued, processed, pre, work>>

Components == 1..NumComponents

AppState_new(songs) ==
    [is_playing |-> FALSE, current_song_uri |-> NoneValue, playlist |-> songs]

AppModel_new(st) == [state |-> st, api |-> [token |-> NoneValue]]

NoEntry == [act |-> Error, src |-> SrcDispatch, n |-> 0]

NoOp == [status |-> "none", actions |-> <<>>, pending |-> <<>>, ok |-> FALSE]

Init ==
    /\ channel = <<>>
    /\ pc = "idle"
    /\ message = NoEntry
    /\ idx = 1
    /\ model = AppModel_new(AppState_new(<<>>))
    /\ borrowed = FALSE
    /\ save_calls = <<>>
    /\ stored = NoCreds
    /\ received = [c \in Components |-> <<>>]
    /\ seen = [c \in Components |-> AppModel_new(AppState_new(<<>>))]
    /\ ops = [o \in 1..MaxOps |-> NoOp]
    /\ enqueued = <<>>
    /\ processed = <<>>
    /\ pre = AppModel_new(AppState_new(<<>>))
    /\ work = 0
    /\ open = TRUE
    /\ list_store = Sidebar_new
    /\ home = <<>>
    /\ prepended = 0
    /\ last_event = NoEvent
    /\ activated = NoDestination

\* ------------------------------------------- faulty variants of the code
\* update_state with one slip, named by bug
update_state_variant(m, a, saved, bug) ==
    CASE a.kind = "Play" ->
            IF bug = "play_toggles"
            THEN [m EXCEPT !.state.is_playing = ~@]
            ELSE [m EXCEPT !.state.is_playing = TRUE]
      [] a.kind = "Pause" ->
            IF bug = "pause_toggles"
            THEN [m EXCEPT !.state.is_playing = ~@]
            ELSE IF bug = "pause_clears_uri"
            THEN [m EXCEPT !.state.is_playing = FALSE,
                           !.state.current_song_uri = NoneValue]
            ELSE [m EXCEPT !.state.is_playing = FALSE]
      [] a.kind = "Load" ->
            IF bug = "load_clears_playlist"
            THEN [m EXCEPT !.state.is_playing = TRUE,
                           !.state.current_song_uri = a.uri,
                           !.state.playlist = <<>>]
            ELSE [m EXCEPT !.state.is_playing = TRUE,
                           !.state.current_song_uri = a.uri]
      [] a.kind = "LoadPlaylist" ->
            [m EXCEPT !.state.playlist = a.tracks]
      [] a.kind = "LoginSuccess" ->
            IF bug = "save_required" /\ ~saved
            THEN m
            ELSE [m EXCEPT !.api.token = a.creds.token]
      [] a.kind = "Error" /\ bug = "error_pauses" ->
            [m EXCEPT !.state.is_playing = FALSE]
      [] a.kind = "Error" /\ bug = "error_clears_token" ->
            [m EXCEPT !.api.token = NoneValue]
      [] a.kind = "StartLogin" /\ bug = "startlogin_clears_token" ->
            [m EXCEPT !.api.token = NoneValue]
      [] OTHER -> m

\* the Error arm stops playback
update_state_error_pauses(m, a, saved) ==
    update_state_variant(m, a, saved, "error_pauses")

\* StartLogin drops the session token
update_state_startlogin_clears_token(m, a, saved) ==
    update_state_variant(m, a, saved, "startlogin_clears_token")

\* the token is installed only when save_credentials succeeded
update_state_save_required(m, a, saved) ==
    update_state_variant(m, a, saved, "save_required")

\* Pause flips the flag
update_state_pause_toggles(m, a, saved) ==
    update_state_variant(m, a, saved, "pause_toggles")

\* Play flips the flag
update_state_play_toggles(m, a, saved) ==
    update_state_variant(m, a, saved, "play_toggles")

\* Load empties the track list in view
update_state_load_clears_playlist(m, a, saved) ==
    update_state_variant(m, a, saved, "load_clears_playlist")

\* the Error arm drops the session token
update_state_error_clears_token(m, a, saved) ==
    update_state_variant(m, a, saved, "error_clears_token")

\* Pause forgets the current track
update_state_pause_clears_uri(m, a, saved) ==
    update_state_variant(m, a, saved, "pause_clears_uri")

\* ------------------------------------------------------- App::update_state
\* saved is the Result of save_credentials, which line 96 discards
update_state(m, a, saved) ==
    CASE a.kind = "Play" ->
            [m EXCEPT !.state.is_playing = TRUE]
      [] a.kind = "Pause" ->
            [m EXCEPT !.state.is_playing = FALSE]
      [] a.kind = "Load" ->
            [m EXCEPT !.state.is_playing = TRUE,
                      !.state.current_song_uri = a.uri]
      [] a.kind = "LoadPlaylist" ->
            [m EXCEPT !.state.playlist = a.tracks]
      [] a.kind = "LoginSuccess" ->
            [m EXCEPT !.api.token = a.creds.token]
      [] OTHER -> m

\* ------------------------------------------- credentials::save_credentials
\* The store keeps the credentials when the call succeeds; its Result is
\* discarded by the caller.
save_credentials(st, c, ok) == IF ok THEN c ELSE st

\* ------------------------------------------------------ Dispatcher, Worker
\* what the scheduled operations answer on success
OpActions ==
    {Pause} \cup {Load(u) : u \in 1..MaxUri}
            \cup {LoginSuccess(c) : c \in Credentials}

OpLists == UNION {[1..n -> OpActions] : n \in 0..MaxOpLen}

Max(a, b) == IF a >= b THEN a ELSE b

\* the run may still spend k units of work
Room(k) == work + k <= MaxWork

Entry(a, src) == [act |-> a, src |-> src, n |-> Len(enqueued) + 1]

\* unbounded_send on the channel
Send(a, src) ==
    /\ open
    /\ channel' = Append(channel, Entry(a, src))
    /\ enqueued' = Append(enqueued, Entry(a, src))

\* Dispatcher::dispatch(action)
Dispatcher_dispatch(a) ==
    /\ Room(1)
    /\ work' = work + 1
    /\ Send(a, SrcDispatch)
    /\ UNCHANGED <<pc, message, idx, model, borrowed, save_calls, stored,
                   received, seen, ops, processed, pre, aside>>

\* a component, other than the sidebar, dispatches an action
Dispatch(a) ==
    /\ Dispatcher_dispatch(a)
    /\ UNCHANGED activated

\* Dispatcher::call_spotify_and_dispatch_many(op): schedule and return
CallSpotifyAndDispatchMany(o, list) ==
    /\ ops[o].status = "none"
    /\ \A p \in 1..(o - 1) : ops[p].status # "none"
    /\ Room(1 + Max(Len(list), 1))
    /\ work' = work + 1 + Max(Len(list), 1)
    /\ ops' = [ops EXCEPT ![o] = [status |-> "scheduled", actions |-> list,
                                  pending |-> <<>>, ok |-> FALSE]]
    /\ UNCHANGED <<channel, pc, message, idx, model, borrowed, save_calls,
                   stored, received, seen, enqueued, processed, pre,
                   aside, activated>>

\* the worker starts the operation; it runs up to its remote call
WorkerRun(o) ==
    /\ ops[o].status = "scheduled"
    /\ ops' = [ops EXCEPT ![o].status = "awaiting"]
    /\ UNCHANGED <<channel, pc, message, idx, model, borrowed, save_calls,
                   stored, received, seen, enqueued, processed, pre, work,
                   aside, activated>>

\* the outcome of an operation as a list of actions
Outcome(list, ok) == IF ok THEN list ELSE <<Error>>

\* the remote call returns Ok or Err
WorkerComplete(o, ok) ==
    /\ ops[o].status = "awaiting"
    /\ ops' = [ops EXCEPT ![o].status =
                              IF Outcome(ops[o].actions, ok) = <<>>
                              THEN "done" ELSE "sending",
                          ![o].pending = Outcome(ops[o].actions, ok),
                          ![o].ok = ok]
    /\ UNCHANGED <<channel, pc, message, idx, model, borrowed, save_calls,
                   stored, received, seen, enqueued, processed, pre, work,
                   aside, activated>>

\* the completed operation sends its next action
WorkerSend(o) ==
    /\ ops[o].status = "sending"
    /\ Send(Head(ops[o].pending), o)
    /\ ops' = [ops EXCEPT ![o].pending = Tail(ops[o].pending),
                          ![o].status = IF Len(ops[o].pending) = 1
                                        THEN "done" ELSE "sending"]
    /\ UNCHANGED <<pc, message, idx, model, borrowed, save_calls, stored,
                   received, seen, processed, pre, work,
                   aside, activated>>

\* ------------------------------------------------------------ SidebarModel
\* SidebarModel::navigate
navigate(dest) ==
    /\ Dispatcher_dispatch(navigate_action(dest))
    /\ activated' = dest

\* the notification is sent before the playlist is prepended
create_new_playlist_actions_swapped(p) ==
    <<ShowPlaylistCreatedNotification(p.id), PrependPlaylistsContent(<<p>>)>>

\* SidebarModel::create_new_playlist, lines 60-65: the actions for the
\* playlist p the remote service created
create_new_playlist_actions(p) ==
    <<PrependPlaylistsContent(<<p>>), ShowPlaylistCreatedNotification(p.id)>>

\* create_new_playlist also writes the application state itself
create_new_playlist_writes(o, name) ==
    \E p \in {ps \in PlaylistSummary : ps.title = name} :
        /\ ops[o].status = "none"
        /\ \A q \in 1..(o - 1) : ops[q].status # "none"
        /\ Room(3)
        /\ work' = work + 3
        /\ ops' = [ops EXCEPT ![o] = [status |-> "scheduled",
                                      actions |-> create_new_playlist_actions(p),
                                      pending |-> <<>>, ok |-> FALSE]]
        /\ model' = [model EXCEPT !.state.playlist = Append(@, 1)]
        /\ UNCHANGED <<channel, pc, message, idx, borrowed, save_calls,
                       stored, received, seen, enqueued, processed, pre,
                   aside, activated>>

\* SidebarModel::create_new_playlist: the remote service answers with a
\* playlist of that name, or fails
create_new_playlist(o, name) ==
    \E p \in {ps \in PlaylistSummary : ps.title = name} :
        CallSpotifyAndDispatchMany(o, create_new_playlist_actions(p))

\* ------------------------------------------------------------ dispatch loop
\* DispatchLoop::attach: the next action of the channel
attach_next(ch) == Head(ch)

\* the next action is handled while the fan-out of the current one runs
Start_reentrant ==
    /\ pc \in {"idle", "fanout"}
    /\ channel # <<>>
    /\ ~borrowed
    /\ message' = Head(channel)
    /\ channel' = Tail(channel)
    /\ borrowed' = TRUE
    /\ pre' = model
    /\ pc' = "update_state"
    /\ UNCHANGED <<idx, model, save_calls, stored, received, seen, ops,
                   enqueued, processed, work,
                   aside, activated>>

\* App::start: the loop takes one action and calls App::handle, which calls
\* App::update_state; line 80 borrows the model exclusively
Start ==
    /\ pc = "idle"
    /\ channel # <<>>
    /\ ~borrowed
    /\ message' = attach_next(channel)
    /\ channel' = Tail(channel)
    /\ borrowed' = TRUE
    /\ pre' = model
    /\ pc' = "update_state"
    /\ UNCHANGED <<idx, model, save_calls, stored, received, seen, ops,
                   enqueued, processed, work,
                   aside, activated>>

\* handle does not call update_state
handle_update_skipped(m, a, saved) == m

\* App::handle, line 72: the state change handle makes for a message
handle_update(m, a, saved) == update_state(m, a, saved)

\* App::update_state, lines 81-102: the match, then the borrow ends
UpdateState ==
    /\ pc = "update_state"
    /\ IF message.act.kind = "LoginSuccess"
       THEN \E ok \in BOOLEAN :
               /\ save_calls' = Append(save_calls, message.act.creds)
               /\ stored' = save_credentials(stored, message.act.creds, ok)
               /\ model' = handle_update(model, message.act, ok)
       ELSE /\ model' = handle_update(model, message.act, TRUE)
            /\ UNCHANGED <<save_calls, stored>>
    /\ borrowed' = FALSE
    /\ processed' = Append(processed, message)
    /\ idx' = 1
    /\ pc' = "fanout"
    /\ UNCHANGED <<channel, message, received, seen, ops, enqueued, pre, work,
                   aside, activated>>

\* the fan-out loop is over after the first component
components_done_after_first(i) == i > 1

\* the fan-out loop stops one component early
components_done_early(i) == i >= NumComponents

\* App::handle, line 74: the fan-out loop is over
components_done(i) == i > NumComponents

\* the loop visits the first component again in place of the last
component_at_skips_last(i) == IF i = NumComponents THEN 1 ELSE i

\* the loop visits the components from the last to the first
component_at_reversed(i) == NumComponents + 1 - i

\* App::handle, line 74: the component visited at position i of the loop
component_at(i) == i

\* App::handle, line 75: component.handle(&message); after the last
\* component handle returns and the loop waits for the next action
ComponentHandle ==
    /\ pc = "fanout"
    /\ ~components_done(idx)
    /\ received' = [received EXCEPT ![component_at(idx)] = Append(@, message)]
    /\ seen' = [seen EXCEPT ![component_at(idx)] = model]
    /\ idx' = idx + 1
    /\ pc' = IF components_done(idx + 1) THEN "idle" ELSE "fanout"
    /\ UNCHANGED <<channel, message, model, borrowed, save_calls, stored, ops,
                   enqueued, processed, pre, work,
                   aside, activated>>

\* ------------------------------------------------------- sidebar list store
MaxSaved == 21        \* most saved playlists the remote service lists
MaxPrepended == 1     \* playlists prepended to the home state

Min(a, b) == IF a <= b THEN a ELSE b

\* SidebarModel::map_to_destination
map_to_destination(a) ==
    PlaylistDestination([id |-> a.uri,
                         title |-> IF a.title # "" THEN a.title
                                   ELSE "Unnamed playlist"])

\* get_playlists shows every saved playlist
get_playlists_untruncated(h) ==
    [i \in 1..Len(h) |-> map_to_destination(h[i])]

\* SidebarModel::get_playlists: the first NUM_PLAYLISTS saved playlists
get_playlists(h) ==
    [i \in 1..Min(Len(h), NUM_PLAYLISTS) |-> map_to_destination(h[i])]

\* gio::ListStore::splice: rejected when the range is not inside the list
ListStore_splice(list, position, n_removals, additions) ==
    IF position + n_removals > Len(list) THEN list
    ELSE SubSeq(list, 1, position) \o additions
            \o SubSeq(list, position + n_removals + 1, Len(list))

\* the u32 subtraction a - b wraps (and panics in a debug build)
u32_sub_wraps(a, b) == a < b

\* the refresh splices at the start of the list
update_playlists_in_sidebar_from_start(list, playlists) ==
    ListStore_splice(list, 0, Len(list) - NUM_FIXED_ENTRIES,
        [i \in 1..Len(playlists) |-> SidebarItem_for_destination(playlists[i])])

\* Sidebar::update_playlists_in_sidebar; a wrapped count is far beyond the
\* list and the splice is rejected, a panic leaves the list as it is
update_playlists_in_sidebar(list, playlists) ==
    IF u32_sub_wraps(Len(list), NUM_FIXED_ENTRIES) THEN list
    ELSE ListStore_splice(list, NUM_FIXED_ENTRIES,
            Len(list) - NUM_FIXED_ENTRIES,
            [i \in 1..Len(playlists) |->
                SidebarItem_for_destination(playlists[i])])

\* Sidebar::on_event
on_event(event) ==
    /\ list_store' =
           IF event = SavedPlaylistsUpdated
           THEN update_playlists_in_sidebar(list_store, get_playlists(home))
           ELSE list_store
    /\ last_event' = event
    /\ UNCHANGED <<core, open, home, prepended, activated>>

\* the home state receives the n saved playlists the remote service lists
SavedPlaylistsLoaded(n) ==
    /\ home' = [i \in 1..n |-> SavedAlbum(i)]
    /\ last_event' = NoEvent
    /\ UNCHANGED <<core, open, list_store, prepended, activated>>

\* the home state receives a created playlist in front of the others
SavedPlaylistsPrepended(p) ==
    /\ prepended < MaxPrepended
    /\ prepended' = prepended + 1
    /\ home' = <<AlbumModel(p.id, p.title)>> \o home
    /\ last_event' = NoEvent
    /\ UNCHANGED <<core, open, list_store, activated>>

\* the last sender is dropped: the channel closes, what it holds stays readable
Shutdown ==
    /\ open
    /\ open' = FALSE
    /\ UNCHANGED <<core, list_store, home, prepended, last_event, activated>>

\* the loop gives up as soon as it finds the channel empty
Stop_on_empty ==
    /\ pc = "idle"
    /\ channel = <<>>
    /\ pc' = "stopped"
    /\ UNCHANGED <<channel, message, idx, model, borrowed, save_calls, stored,
                   received, seen, ops, enqueued, processed, pre, work,
                   aside, activated>>

\* App::start: the future of DispatchLoop::attach resolves, the stream is over
Stop ==
    /\ pc = "idle"
    /\ channel = <<>>
    /\ ~open
    /\ pc' = "stopped"
    /\ UNCHANGED <<channel, message, idx, model, borrowed, save_calls, stored,
                   received, seen, ops, enqueued, processed, pre, work,
                   aside, activated>>

\* the operation slots a call may take
FreeOps == {o \in 1..MaxOps : ops[o].status = "none" /\ Room(2)}

Next ==
    \/ \E a \in AppAction : Dispatch(a)
    \/ \E o \in FreeOps : \E list \in OpLists : CallSpotifyAndDispatchMany(o, list)
    \/ \E o \in FreeOps : \E name \in PlaylistNames : create_new_playlist(o, name)
    \/ \E o \in 1..MaxOps : WorkerRun(o)
    \/ \E o \in 1..MaxOps, ok \in BOOLEAN : WorkerComplete(o, ok)
    \/ \E o \in 1..MaxOps : WorkerSend(o)
    \/ Start
    \/ UpdateState
    \/ ComponentHandle

Spec == Init /\ [][Next]_vars

\* the steps of the task the worker runs for operation o
WorkerStep(o) ==
    \/ WorkerRun(o)
    \/ \E ok \in BOOLEAN : WorkerComplete(o, ok)
    \/ WorkerSend(o)

\* the steps of the dispatch loop
LoopStep == Start \/ UpdateState \/ ComponentHandle

\* the executor polls every spawned task and the loop's future again and again
\* the program while operations are under way: the user plays or pauses,
\* operations are scheduled and run, the loop processes what arrives
NextFair ==
    \/ \E a \in {Play, Pause} : Dispatch(a)
    \/ \E o \in FreeOps : \E list \in OpLists : CallSpotifyAndDispatchMany(o, list)
    \/ \E o \in 1..MaxOps : WorkerStep(o)
    \/ LoopStep

FairSpec ==
    /\ Init
    /\ [][NextFair]_vars
    /\ \A o \in 1..MaxOps : WF_vars(WorkerStep(o))
    /\ WF_vars(LoopStep)

\* the sidebar and the saved playlists of the home state
NextSidebarList ==
    \/ \E n \in 0..MaxSaved : SavedPlaylistsLoaded(n)
    \/ \E p \in PlaylistSummary : SavedPlaylistsPrepended(p)
    \/ \E event \in AppEvent : on_event(event)

SpecSidebarList == Init /\ [][NextSidebarList]_vars

\* the sidebar's rows are activated and playlists created, the worker and the
\* loop run
NextSidebarNav ==
    \/ \E dest \in SidebarDestination : navigate(dest)
    \/ \E o \in FreeOps : \E name \in PlaylistNames : create_new_playlist(o, name)
    \/ \E o \in 1..MaxOps : WorkerRun(o)
    \/ \E o \in 1..MaxOps, ok \in BOOLEAN : WorkerComplete(o, ok)
    \/ \E o \in 1..MaxOps : WorkerSend(o)
    \/ Start
    \/ UpdateState
    \/ ComponentHandle

SpecSidebarNav == Init /\ [][NextSidebarNav]_vars

\* the program with the closing of the channel and the end of the loop
NextShutdown ==
    \/ \E a \in AppAction : Dispatch(a)
    \/ \E o \in FreeOps : \E list \in OpLists : CallSpotifyAndDispatchMany(o, list)
    \/ \E o \in 1..MaxOps : WorkerRun(o)
    \/ \E o \in 1..MaxOps, ok \in BOOLEAN : WorkerComplete(o, ok)
    \/ \E o \in 1..MaxOps : WorkerSend(o)
    \/ Start
    \/ UpdateState
    \/ ComponentHandle
    \/ Shutdown
    \/ Stop

SpecShutdown == Init /\ [][NextShutdown]_vars

\* ------------------------------------------------- histories, for the claims
InitModel == AppModel_new(AppState_new(<<>>))

Acts(seq) == [i \in 1..Len(seq) |-> seq[i].act]

Range(seq) == {seq[i] : i \in 1..Len(seq)}

Front(seq) == SubSeq(seq, 1, Len(seq) - 1)

Last(seq) == seq[Len(seq)]

\* the left fold of update_state over a sequence of actions
RECURSIVE Fold(_, _, _)
Fold(m, acts, saved) ==
    IF acts = <<>> THEN m
    ELSE Fold(update_state(m, Head(acts), saved), Tail(acts), saved)

\* the entry update_state is about to be applied to
InHand == IF pc = "update_state" THEN <<message>> ELSE <<>>

FromSrc(seq, o) == SelectSeq(seq, LAMBDA e : e.src = o)

Delivered(e) == \A c \in Components : e \in Range(received[c])

Begun(e) == e \in Range(InHand) \/ e \in Range(processed)

FullyProcessed(e) ==
    /\ e \in Range(processed)
    /\ Delivered(e)

\* C1: the loop hands the enqueued actions to handle in arrival order, none
\* lost, and the model is the left fold of update_state over the actions
\* processed so far, starting from the initial model, whatever
\* save_credentials answered.
C1_FifoFold ==
    /\ processed \o InHand \o channel = enqueued
    /\ \A saved \in BOOLEAN : model = Fold(InitModel, Acts(processed), saved)
    /\ (pc = "idle" /\ channel = <<>>) =>
           \A saved \in BOOLEAN : model = Fold(InitModel, Acts(enqueued), saved)

C1_Witness ==
    /\ pc = "idle"
    /\ channel = <<>>
    /\ Len(enqueued) >= 2
    /\ processed = enqueued
    /\ \E i, j \in 1..Len(enqueued) :
          enqueued[i].src = SrcDispatch /\ enqueued[j].src # SrcDispatch
    /\ model.state.is_playing
    /\ model.api.token # NoneValue

C4_FailureOneError ==
    \A o \in 1..MaxOps :
        (ops[o].status \in {"sending", "done"} /\ ~ops[o].ok) =>
            /\ Acts(FromSrc(enqueued, o)) \o ops[o].pending = <<Error>>
            /\ \A e \in Range(FromSrc(enqueued, o)) :
                  e.act \notin Range(ops[o].actions)
            /\ (message.src = o /\ pc # "update_state") => model = pre
            /\ (message.src = o /\ pc = "idle") => Delivered(message)

C4_Witness ==
    \E o \in 1..MaxOps :
        /\ ops[o].status = "done"
        /\ ~ops[o].ok
        /\ Len(ops[o].actions) = 1
        /\ message.src = o
        /\ message.act = Error
        /\ pc = "idle"
        /\ model.state.is_playing
        /\ Delivered(message)

C6_FanoutAfterMutation ==
    /\ \A c, d \in Components :
          c < d => Len(received[d]) \in {Len(received[c]) - 1, Len(received[c])}
    /\ \A c \in Components : \A i, j \in 1..Len(received[c]) :
          received[c][i] = received[c][j] => i = j
    /\ pc = "fanout" => ~borrowed
    /\ \A c \in Components : \A saved \in BOOLEAN :
          (pc # "update_state" /\ received[c] # <<>>
             /\ Last(received[c]) = message)
              => seen[c] = update_state(pre, message.act, saved)

C6_Witness ==
    /\ pc = "fanout"
    /\ idx = 3
    /\ message.act.kind = "Load"
    /\ ~pre.state.is_playing
    /\ pre.state.current_song_uri = NoneValue
    /\ Last(received[1]) = message
    /\ Last(received[2]) = message
    /\ seen[2].state.is_playing
    /\ seen[2].state.current_song_uri = message.act.uri
    /\ Len(received[3]) = Len(received[2]) - 1

\* C7: processing StartLogin, TryLogin or Error leaves the model as it was,
\* and the action is handed to every component.
C7_NoRuleNoChange ==
    (message.n > 0 /\ message.act.kind \in {"StartLogin", "TryLogin", "Error"}) =>
        /\ model = pre
        /\ pc = "idle" => Delivered(message)

C7_Witness ==
    /\ pc = "idle"
    /\ message.act.kind = "StartLogin"
    /\ model.api.token # NoneValue
    /\ model.state.is_playing
    /\ Delivered(message)

\* the credentials of the LoginSuccess actions among the entries
LoginCreds(seq) ==
    Acts(SelectSeq(seq, LAMBDA e : e.act.kind = "LoginSuccess"))

\* C8: each processed LoginSuccess calls save_credentials once with its
\* credentials and installs their token, also when the save fails; the
\* action still reaches every component and the loop takes the next one.
C8_LoginSuccess ==
    /\ save_calls = [i \in 1..Len(LoginCreds(processed)) |->
                        LoginCreds(processed)[i].creds]
    /\ (pc # "update_state" /\ message.act.kind = "LoginSuccess") =>
           model.api.token = message.act.creds.token
    /\ (pc = "idle" /\ message.act.kind = "LoginSuccess") => Delivered(message)
    /\ (pc = "idle" /\ channel # <<>>) => ENABLED Start

C8_Witness ==
    /\ Len(processed) = 2
    /\ processed[1].act.kind = "LoginSuccess"
    /\ save_calls = <<processed[1].act.creds>>
    /\ stored = NoCreds
    /\ model.api.token = processed[1].act.creds.token
    /\ Delivered(processed[1])
    /\ pc = "idle"

\* C9: after Pause has been processed twice in succession is_playing is
\* false and the model is the one the first Pause left.
C9_PauseIdempotent ==
    ( /\ Len(processed) >= 2
      /\ Last(processed).act = Pause
      /\ Last(Front(processed)).act = Pause ) =>
        /\ model.state.is_playing = FALSE
        /\ model = pre

C9_Witness ==
    /\ Len(processed) = 3
    /\ processed[1].act.kind = "Load"
    /\ processed[2].act = Pause
    /\ processed[3].act = Pause
    /\ pc = "idle"

\* C10: after Load(uri) is processed is_playing is true and the current
\* track is uri; after a Pause processed next is_playing is false and the
\* current track is still uri.
C10_LoadThenPause ==
    /\ (processed # <<>> /\ Last(processed).act.kind = "Load") =>
           /\ model.state.is_playing = TRUE
           /\ model.state.current_song_uri = Last(processed).act.uri
    /\ ( /\ Len(processed) >= 2
         /\ Last(processed).act = Pause
         /\ Last(Front(processed)).act.kind = "Load" ) =>
           /\ model.state.is_playing = FALSE
           /\ model.state.current_song_uri = Last(Front(processed)).act.uri

C10_Witness ==
    /\ Len(processed) = 3
    /\ processed[1].act.kind = "LoadPlaylist"
    /\ processed[2].act.kind = "Load"
    /\ processed[3].act = Pause
    /\ model.state.current_song_uri = processed[2].act.uri
    /\ pc = "idle"

\* the last action taken from the channel has had its update_state
Applied == message.n > 0 /\ pc # "update_state"

\* C11 as claimed: processing Play or Pause inverts is_playing.
C11_Toggles ==
    (Applied /\ message.act.kind \in {"Play", "Pause"}) =>
        model.state.is_playing = ~pre.state.is_playing

\* C11: processing Play leaves is_playing true and processing Pause leaves
\* it false, whatever it was before; nothing is inverted.
C11_PlaySetsPauseClears ==
    /\ (Applied /\ message.act.kind = "Play") => model.state.is_playing = TRUE
    /\ (Applied /\ message.act.kind = "Pause") => model.state.is_playing = FALSE

C11_Witness ==
    /\ Len(processed) = 2
    /\ processed[1].act = Play
    /\ processed[2].act = Play
    /\ pre.state.is_playing
    /\ model.state.is_playing
    /\ pc = "idle"

\* C13: a dispatch made while a handler runs only puts the action on the
\* channel: the loop's position, the model, what the components saw and the
\* processed actions stay as they are, and the loop takes another action
\* only when the current one has been handed to every component.
C13_NoReentrantDispatch ==
    [][ /\ (pc = "fanout" /\ enqueued' # enqueued) =>
               /\ UNCHANGED <<pc, idx, message, model, borrowed, processed,
                              received, seen, pre>>
               /\ channel' = Append(channel, Last(enqueued'))
        /\ (message' # message) =>
               /\ pc = "idle"
               /\ message.n > 0 => Delivered(message)
               /\ \A c \in Components : \A saved \in BOOLEAN :
                     message.n > 0 =>
                         seen[c] = update_state(pre, message.act, saved) ]_vars

C13_Witness ==
    /\ pc = "fanout"
    /\ idx = 3
    /\ message.act.kind = "Load"
    /\ Len(channel) = 2
    /\ channel[1].src = SrcDispatch
    /\ channel[1].act.kind = "Pause"
    /\ seen[2].state.is_playing

\* C14: the session token changes only in the loop's update_state step of a
\* LoginSuccess action; no other action and no step of an operation writes it.
C14_TokenOnlyByLoginSuccess ==
    [][ (model'.api.token # model.api.token) =>
            /\ pc = "update_state"
            /\ pc' = "fanout"
            /\ message.act.kind = "LoginSuccess"
            /\ model'.api.token = message.act.creds.token ]_vars

C14_Witness ==
    /\ model.api.token # NoneValue
    /\ message.act = Error
    /\ message.src # SrcDispatch
    /\ pc = "idle"
    /\ Len(processed) = 2

\* C16: each rule writes its own fields only: Play and Pause is_playing;
\* Load is_playing and the current track; LoadPlaylist the track list, which
\* becomes the action's tracks; LoginSuccess nothing of the AppState.
C16_RulesWriteOwnFields ==
    Applied =>
        /\ message.act.kind \in {"Play", "Pause"} =>
              model = [pre EXCEPT !.state.is_playing = model.state.is_playing]
        /\ message.act.kind = "Load" =>
              model = [pre EXCEPT
                          !.state.is_playing = model.state.is_playing,
                          !.state.current_song_uri = model.state.current_song_uri]
        /\ message.act.kind = "LoadPlaylist" =>
              model = [pre EXCEPT !.state.playlist = message.act.tracks]
        /\ message.act.kind = "LoginSuccess" => model.state = pre.state

C16_Witness ==
    /\ Len(processed) = 3
    /\ processed[1].act.kind = "LoginSuccess"
    /\ processed[2].act.kind = "LoadPlaylist"
    /\ processed[3].act.kind = "Load"
    /\ model.state.playlist = processed[2].act.tracks
    /\ model.state.playlist # <<>>
    /\ model.api.token # NoneValue
    /\ pc = "idle"

\* C15: the dispatch loop ends only when the channel has been closed and
\* drained; whatever it has processed, an Error or a login whose save failed
\* included, it takes the next action the channel holds.
C15_StopsOnlyOnClose ==
    /\ pc = "stopped" => (~open /\ channel = <<>>)
    /\ (pc = "idle" /\ channel # <<>>) => ENABLED Start

C15_Witness ==
    /\ pc = "stopped"
    /\ Len(processed) >= 2
    /\ processed[1].act.kind = "Error"

\* the outcome of operation o is on record: every action of it was enqueued,
\* in order, applied to the model and handed to every component
OpSettled(o) ==
    /\ ops[o].status = "done"
    /\ Acts(FromSrc(enqueued, o)) = Outcome(ops[o].actions, ops[o].ok)
    /\ \A e \in Range(FromSrc(enqueued, o)) : FullyProcessed(e)

C17_FixedEntriesStay ==
    /\ ~u32_sub_wraps(Len(list_store), NUM_FIXED_ENTRIES)
    /\ Len(list_store) <= NUM_FIXED_ENTRIES + NUM_PLAYLISTS
    /\ SubSeq(list_store, 1, NUM_FIXED_ENTRIES) = Sidebar_new
    /\ \A i \in (NUM_FIXED_ENTRIES + 1)..Len(list_store) :
           /\ list_store[i].item = "destination"
           /\ list_store[i].dest.kind = "Playlist"

C17_Witness ==
    /\ Len(list_store) = NUM_FIXED_ENTRIES + NUM_PLAYLISTS
    /\ last_event = SavedPlaylistsUpdated
    /\ prepended = 0
    /\ Len(home) = NUM_PLAYLISTS + 1
    /\ list_store[NUM_FIXED_ENTRIES + 2].dest.summary.title = "Unnamed playlist"

\* C19: once the sidebar has handled SavedPlaylistsUpdated, the items after
\* the six fixed ones are the first min(n, 20) saved playlists of the home
\* state, in order (so handling the event again changes nothing); any other
\* event leaves the list as it is; handling an event sends no action and
\* changes neither the application model nor the home state.
C19_RefreshOnSavedPlaylists ==
    /\ [](last_event = SavedPlaylistsUpdated =>
            /\ Len(list_store) =
                   NUM_FIXED_ENTRIES + Min(Len(home), NUM_PLAYLISTS)
            /\ \A i \in 1..Min(Len(home), NUM_PLAYLISTS) :
                   /\ list_store[NUM_FIXED_ENTRIES + i].dest.kind = "Playlist"
                   /\ list_store[NUM_FIXED_ENTRIES + i].dest.summary.id
                          = home[i].uri)
    /\ [][(last_event' \in AppEvent \ {SavedPlaylistsUpdated})
              => list_store' = list_store]_vars
    /\ [][(last_event' \in AppEvent)
              => UNCHANGED <<channel, enqueued, ops, model, home>>]_vars

C19_Witness ==
    /\ last_event = SavedPlaylistsUpdated
    /\ Len(home) > NUM_PLAYLISTS
    /\ prepended > 0
    /\ Len(list_store) = NUM_FIXED_ENTRIES + NUM_PLAYLISTS

\* what operation o has sent and has still to send
C18_Sent(o) == Acts(FromSrc(enqueued, o)) \o ops[o].pending

\* C18: creating a playlist schedules one operation and enqueues nothing; no
\* step of the operation changes the application model, the home state or
\* the sidebar list; a successful operation enqueues exactly
\* PrependPlaylistsContent of the created playlist and then
\* ShowPlaylistCreatedNotification of its id, a failed one neither of them.
C18_CreatePlaylist ==
    /\ [](\A o \in 1..MaxOps :
            /\ ops[o].status # "none" =>
                   \E p \in PlaylistSummary :
                       ops[o].actions =
                           << PrependPlaylistsContent(<<p>>),
                              ShowPlaylistCreatedNotification(p.id) >>
            /\ ops[o].status \in {"none", "scheduled", "awaiting"} =>
                   FromSrc(enqueued, o) = <<>>
            /\ (ops[o].status \in {"sending", "done"} /\ ops[o].ok) =>
                   C18_Sent(o) = ops[o].actions
            /\ ops[o].ok =>
                   Acts(FromSrc(processed, o)) =
                       SubSeq(ops[o].actions, 1, Len(FromSrc(processed, o)))
            /\ (ops[o].status \in {"sending", "done"} /\ ~ops[o].ok) =>
                   \A i \in 1..Len(C18_Sent(o)) :
                       C18_Sent(o)[i].kind \notin
                           {"PrependPlaylistsContent",
                            "ShowPlaylistCreatedNotification"})
    /\ [][ops' # ops =>
              /\ UNCHANGED <<model, list_store, home>>
              /\ Cardinality({o \in 1..MaxOps : ops'[o] # ops[o]}) = 1
              /\ \A o \in 1..MaxOps :
                     ops[o].status = "none" => FromSrc(enqueued', o) = <<>>]_vars

C18_Witness ==
    \E o \in 1..MaxOps :
        /\ ops[o].status = "done"
        /\ ops[o].ok
        /\ Len(FromSrc(processed, o)) = 2
        /\ FromSrc(processed, o)[1].act.kind = "PrependPlaylistsContent"
        /\ FromSrc(processed, o)[2].act.kind = "ShowPlaylistCreatedNotification"
        /\ model = InitModel
        /\ list_store = Sidebar_new

\* C20: an activation of a sidebar row enqueues exactly one action and
\* changes nothing else: SetHomeVisiblePage of the destination's id for
\* Library, SavedTracks, NowPlaying and SavedPlaylists, ViewPlaylist of the
\* playlist's id for a playlist.
C20_NavigateOneAction ==
    [][(activated' # activated
           \/ (enqueued' # enqueued /\ Last(enqueued').src = SrcDispatch)) =>
          /\ enqueued' = Append(enqueued, Last(enqueued'))
          /\ channel' = Append(channel, Last(enqueued'))
          /\ Last(enqueued').src = SrcDispatch
          /\ Last(enqueued').act =
                 IF activated'.kind = "Playlist"
                 THEN ViewPlaylist(activated'.summary.id)
                 ELSE SetHomeVisiblePage(dest_id(activated'))
          /\ activated'.kind \in {"Library", "SavedTracks", "NowPlaying",
                                   "SavedPlaylists", "Playlist"}
          /\ UNCHANGED <<model, list_store, home, ops, pc, message,
                         processed, received, save_calls, stored>>]_vars

C20_Witness ==
    /\ activated.kind = "Playlist"
    /\ Len(processed) >= 2
    /\ processed[1].act.kind = "SetHomeVisiblePage"
    /\ processed[1].act.id = "saved_playlists"
    /\ processed[2].act = ViewPlaylist(activated.summary.id)
    /\ model = InitModel

====
